---- MODULE Spec2Model ----
(***************************************************************************)
(* Model of the corridor network generator                                 *)
(*   scripts/generate_network.py  (point sampling, Lloyd relaxation, base  *)
(*                                 graph, per-mode pruning, reindexing)    *)
(*   scripts/voronoi.py           (the earlier generate_city_points)       *)
(*                                                                         *)
(* Numbers.  Coordinates of sampled points are integers (map units).       *)
(* Voronoi vertex coordinates are integers in thousandths of a map unit;   *)
(* round(x, 2) maps them to hundredths.  Removal fractions are integers in *)
(* percent, so int(len * fraction) is (len * percent) \div 100.  The value *)
(* of np.random.rand() is given by its cube root in tenths.                *)
(*                                                                         *)
(* Objects.  The node dicts live in `heap`, a sequence of records; a node  *)
(* list is a sequence of addresses into it, so that dict(node) (a copy)    *)
(* and node["id"] = ... (an assignment through a reference) are distinct   *)
(* operations.  The constant fields node_type, physical_attributes and     *)
(* turn_restrictions and the edges' randomly chosen facility_type are left *)
(* out.                                                                    *)
(***************************************************************************)
EXTENDS Integers, Sequences, FiniteSets

VARIABLES
    script,       \* which generate_city_points runs: "generate_network" or "voronoi"
    num_points,   \* argument num_points
    points,       \* the list `points` of the sampling loop
    attempts,     \* the counter `attempts`
    pts,          \* the point array of the relaxation loop
    iter,         \* completed relaxation iterations
    cpc,          \* position in generate_city_points
    ridges,       \* vor.ridge_vertices handed to build_base_graph
    modes,        \* the modes still to derive
    heap,         \* the node dicts
    nodes,        \* base node list (addresses)
    base_edges,   \* base edge list
    graphs,       \* the dict `graphs` of generate_network
    npc,          \* position in generate_network
    base0,        \* history: base graph as it stood when mode derivation began
    arg,          \* unit calls: the arguments
    res,          \* unit calls: the result
    op            \* unit calls: which function was applied

vars == <<script, num_points, points, attempts, pts, iter, cpc,
          ridges, modes, heap, nodes, base_edges, graphs, npc, base0,
          arg, res, op>>

cityVars == <<script, num_points, points, attempts, pts, iter, cpc>>
netVars  == <<ridges, modes, heap, nodes, base_edges, graphs, npc, base0>>
unitVars == <<arg, res, op>>

----------------------------------------------------------------------------
(* Bounds *)

MaxPoints == 4        \* largest num_points
MaxRidges == 2        \* longest enumerated ridge list
MaxChain == 9         \* ridges in the longest chain-shaped Voronoi diagram
MaxUnitNodes == 3     \* longest enumerated node list of a single call
MaxUnitEdges == 2     \* longest enumerated edge list of a single call
MaxRing == 10         \* nodes of the largest ring graph of a single call

----------------------------------------------------------------------------
(* Generic helpers *)

Range(s) == {s[i] : i \in 1..Len(s)}

----------------------------------------------------------------------------
(* generate_city_points: rejection sampling                                *)

MapSize == 30          \* map_size = max(30.0, sqrt(n) * 10.0) for n <= 9

AttemptFactor == 50    \* max_attempts = num_points * 50

ITERATIONS == 3        \* iterations=3

MinVoronoiPoints == 4  \* Qhull needs 4 points for a 2-D Voronoi diagram

\* Candidates (x, y) drawn by np.random.uniform: the centre, two points
\* between centre and border, and a corner.
Candidates == {<<15, 15>>, <<16, 22>>, <<27, 3>>, <<0, 0>>}

\* Values of np.random.rand(), given by their cube roots in tenths:
\* j stands for rand() = (j / 10) ** 3, that is 0, 0.008, 0.064, 0.512, 0.729.
RandRoots == {0, 2, 4, 8, 9}

max_attempts(n) == n * AttemptFactor

\* np.random.rand() < prob, where
\*   norm_dist = (dist / max_dist) * 0.7 and prob = (1 - norm_dist) ** 3.
\* Both sides are cubes of numbers in [0, 1], so with rand() = (j / 10) ** 3
\*   rand() < prob  <=>  j / 10 < 1 - 0.7 * dist / max_dist
\*                  <=>  7 * dist < (10 - j) * max_dist
\*                  <=>  49 * dist ** 2 < (10 - j) ** 2 * max_dist ** 2
\* which needs no square root.  (2 dist)^2 and (2 max_dist)^2 are used to
\* stay in whole numbers.
Accepted(c, j, width, height) ==
    LET dx2 == 2 * c[1] - width     \* 2 * (x - cx), cx = width / 2
        dy2 == 2 * c[2] - height    \* 2 * (y - cy), cy = height / 2
        d2  == dx2 * dx2 + dy2 * dy2            \* (2 * dist) ** 2
        m2  == width * width + height * height  \* (2 * max_dist) ** 2
    IN  49 * d2 < (10 - j) * (10 - j) * m2

\* while len(points) < num_points and attempts < max_attempts
LoopCondOffByOne == Len(points) < num_points /\ attempts <= max_attempts(num_points)
LoopCond == Len(points) < num_points /\ attempts < max_attempts(num_points)

SampleAttempt ==
    /\ cpc = "sample"
    /\ LoopCond
    /\ \E c \in Candidates, r \in RandRoots :
          /\ attempts' = attempts + 1
          /\ points' = IF Accepted(c, r, MapSize, MapSize)
                       THEN Append(points, c) ELSE points
    /\ UNCHANGED <<script, num_points, pts, iter, cpc>>
    /\ UNCHANGED <<netVars, unitVars>>

\* pts = np.array(points)
SampleExit ==
    /\ cpc = "sample"
    /\ ~LoopCond
    /\ pts' = points
    /\ iter' = 0
    /\ cpc' = "relax"
    /\ UNCHANGED <<script, num_points, points, attempts>>
    /\ UNCHANGED <<netVars, unitVars>>

----------------------------------------------------------------------------
(* generate_city_points: Lloyd relaxation                                  *)

\* Centroids np.mean(vertices) can yield: two inside the rectangle, one outside.
Centroids == {<<10, 10>>, <<20, 12>>, <<31, 5>>}

\* What the Voronoi diagram says of one point: its region contains -1
\* (unbounded), is empty, or is bounded with the given centroid.
Regions == {[kind |-> "unbounded", centroid |-> <<0, 0>>],
            [kind |-> "empty", centroid |-> <<0, 0>>]}
           \cup {[kind |-> "bounded", centroid |-> c] : c \in Centroids}

InBounds(p, width, height) ==
    0 <= p[1] /\ p[1] <= width /\ 0 <= p[2] /\ p[2] <= height

\* generate_network.py: one pass of the inner loop over vor.point_region
RECURSIVE RelaxNetwork(_, _, _, _)
RelaxNetwork(p, reg, width, height) ==
    IF p = <<>> THEN <<>>
    ELSE LET r == Head(reg)
             rest == RelaxNetwork(Tail(p), Tail(reg), width, height)
         IN  IF r.kind \in {"unbounded", "empty"}
             THEN <<Head(p)>> \o rest
             ELSE IF InBounds(r.centroid, width, height)
                  THEN <<r.centroid>> \o rest
                  ELSE <<Head(p)>> \o rest

\* voronoi.py: one pass of the inner loop over vor.point_region
RECURSIVE RelaxVoronoi(_, _, _, _)
RelaxVoronoi(p, reg, width, height) ==
    IF p = <<>> THEN <<>>
    ELSE LET r == Head(reg)
             rest == RelaxVoronoi(Tail(p), Tail(reg), width, height)
         IN  IF r.kind \in {"unbounded", "empty"}
             THEN rest
             ELSE IF InBounds(r.centroid, width, height)
                  THEN <<r.centroid>> \o rest
                  ELSE <<Head(p)>> \o rest

\* One iteration of `for _ in range(iterations)`; Voronoi(pts) raises when it
\* is given fewer than four points.
RelaxIteration ==
    /\ cpc = "relax"
    /\ iter < ITERATIONS
    /\ IF Len(pts) < MinVoronoiPoints
       THEN /\ cpc' = "error"
            /\ UNCHANGED <<pts, iter>>
       ELSE /\ \E reg \in [1..Len(pts) -> Regions] :
                 pts' = IF script = "generate_network"
                        THEN RelaxNetwork(pts, reg, MapSize, MapSize)
                        ELSE RelaxVoronoi(pts, reg, MapSize, MapSize)
            /\ iter' = iter + 1
            /\ cpc' = cpc
    /\ UNCHANGED <<script, num_points, points, attempts>>
    /\ UNCHANGED <<netVars, unitVars>>

\* return pts
RelaxReturn ==
    /\ cpc = "relax"
    /\ iter = ITERATIONS
    /\ cpc' = "done"
    /\ UNCHANGED <<script, num_points, points, attempts, pts, iter>>
    /\ UNCHANGED <<netVars, unitVars>>

\* Sampling loop of generate_city_points, from the call to the loop's exit.
InitSample ==
    /\ script \in {"generate_network", "voronoi"}
    /\ num_points \in 0..MaxPoints
    /\ points = <<>>
    /\ attempts = 0
    /\ pts = <<>>
    /\ iter = 0
    /\ cpc = "sample"
    \* generate_network and the single calls are not running
    /\ ridges = <<>> /\ modes = <<>> /\ heap = <<>> /\ nodes = <<>>
    /\ base_edges = <<>> /\ graphs = <<>> /\ npc = "idle" /\ base0 = <<>>
    /\ arg = <<>> /\ res = <<>> /\ op = "none"

NextSample == SampleAttempt \/ SampleExit

SpecSample == InitSample /\ [][NextSample]_vars

\* The loop is a sequential program: a step that can be taken is taken.
FairSpecSample == SpecSample /\ WF_vars(NextSample)

\* Relaxation, from the state in which the sampling loop has just stopped:
\* either num_points candidates were accepted (here: each at the first
\* attempt, rand() = 0 accepts every candidate), or the budget ran out with
\* fewer.  The accepted points are a prefix of SampledOrder.
SampledOrder(i) ==
    CASE i % 4 = 1 -> <<15, 15>>
      [] i % 4 = 2 -> <<16, 22>>
      [] i % 4 = 3 -> <<8, 14>>
      [] OTHER     -> <<0, 0>>

InitRelax ==
    /\ script \in {"generate_network", "voronoi"}
    /\ num_points \in 0..MaxPoints
    /\ \E k \in 0..num_points :
          /\ points = [i \in 1..k |-> SampledOrder(i)]
          /\ attempts = IF k = num_points THEN k ELSE max_attempts(num_points)
    /\ pts = <<>>
    /\ iter = 0
    /\ cpc = "sample"
    \* generate_network and the single calls are not running
    /\ ridges = <<>> /\ modes = <<>> /\ heap = <<>> /\ nodes = <<>>
    /\ base_edges = <<>> /\ graphs = <<>> /\ npc = "idle" /\ base0 = <<>>
    /\ arg = <<>> /\ res = <<>> /\ op = "none"

NextRelax == SampleExit \/ RelaxIteration \/ RelaxReturn

SpecRelax == InitRelax /\ [][NextRelax]_vars

----------------------------------------------------------------------------
(* Node dicts                                                              *)

NODE_REMOVAL_FRACTION == 10    \* 0.10, in percent
EDGE_REMOVAL_FRACTION == 20    \* 0.20, in percent

\* the dicts a node list refers to
Deref(h, refs) == [i \in 1..Len(refs) |-> h[refs[i]]]

\* dict(node): a new dict with the same fields
DictCopyAlias(h, a) == [heap |-> h, ref |-> a]
DictCopy(h, a) == [heap |-> Append(h, h[a]), ref |-> Len(h) + 1]

\* [dict(node) for node in refs]
RECURSIVE CopyNodes(_, _)
CopyNodes(h, refs) ==
    IF refs = <<>> THEN [heap |-> h, refs |-> <<>>]
    ELSE LET c == DictCopy(h, Head(refs))
             r == CopyNodes(c.heap, Tail(refs))
         IN  [heap |-> r.heap, refs |-> <<c.ref>> \o r.refs]

\* int(n * fraction), fraction in percent
IntFractionCeil(n, percent) == (n * percent + 99) \div 100
IntFraction(n, percent) == (n * percent) \div 100

Min(a, b) == IF a < b THEN a ELSE b

\* The results random.sample(population, k) can have, as sets: the values at
\* any k distinct positions of the population.
RandomSample(population, k) ==
    {{population[i] : i \in P} :
        P \in {Q \in SUBSET (1..Len(population)) : Cardinality(Q) = k}}

----------------------------------------------------------------------------
(* build_base_graph                                                        *)

\* round(x, 2): x in thousandths, result in two-hundredths (half a
\* hundredth), the unit of node positions, in which the centre that
\* generate_network subtracts is a whole number.  The model's vertex
\* coordinates never end in 5, so no tie arises.
Round2(x) == 2 * ((x + 5) \div 10)

\* tuple comparison a <= b
TupleLeq(a, b) == a[1] < b[1] \/ (a[1] = b[1] /\ a[2] <= b[2])

\* tuple(sorted((n1, n2)))
EdgeKeyUnsorted(n1, n2) == <<n1, n2>>
EdgeKey(n1, n2) == IF TupleLeq(n1, n2) THEN <<n1, n2>> ELSE <<n2, n1>>

\* ensure_node: st is the state of build_base_graph (heap, nodes,
\* node_mapping, edge_seen, base_edges); the result is the new state and the id.
EnsureNode(st, coord) ==
    IF coord \notin DOMAIN st.node_mapping
    THEN LET node_id == Len(st.nodes)
         IN  [st |-> [st EXCEPT
                        !.heap = Append(@, [id |-> node_id, position |-> coord]),
                        !.nodes = Append(@, Len(st.heap) + 1),
                        !.node_mapping = [c \in DOMAIN @ \cup {coord} |->
                                             IF c = coord THEN node_id ELSE @[c]]],
              id |-> node_id]
    ELSE [st |-> st, id |-> st.node_mapping[coord]]

\* the body of `for p1_idx, p2_idx in vor.ridge_vertices`; vertices is
\* vor.vertices as a function of the 0-based index
RidgeStepKeepsLoops(st, ridge, vertices, width, height) ==
    LET p1_idx == ridge[1]
        p2_idx == ridge[2]
    IN  IF p1_idx = -1 \/ p2_idx = -1 THEN st
        ELSE LET p1 == vertices[p1_idx]
                 p2 == vertices[p2_idx]
             IN  IF ~InBounds(p1, width, height) THEN st
                 ELSE IF ~InBounds(p2, width, height) THEN st
                 ELSE LET n1 == <<Round2(p1[1]), Round2(p1[2])>>
                          n2 == <<Round2(p2[1]), Round2(p2[2])>>
                      IN  IF FALSE THEN st
                          ELSE LET edge_key == EdgeKey(n1, n2)
                               IN  IF edge_key \in st.edge_seen THEN st
                                   ELSE LET s1 == [st EXCEPT !.edge_seen = @ \cup {edge_key}]
                                            a  == EnsureNode(s1, n1)
                                            b  == EnsureNode(a.st, n2)
                                        IN  [b.st EXCEPT !.base_edges =
                                                Append(@, <<a.id, b.id>>)]
RidgeStep(st, ridge, vertices, width, height) ==
    LET p1_idx == ridge[1]
        p2_idx == ridge[2]
    IN  IF p1_idx = -1 \/ p2_idx = -1 THEN st
        ELSE LET p1 == vertices[p1_idx]
                 p2 == vertices[p2_idx]
             IN  IF ~InBounds(p1, width, height) THEN st
                 ELSE IF ~InBounds(p2, width, height) THEN st
                 ELSE LET n1 == <<Round2(p1[1]), Round2(p1[2])>>
                          n2 == <<Round2(p2[1]), Round2(p2[2])>>
                      IN  IF n1 = n2 THEN st
                          ELSE LET edge_key == EdgeKey(n1, n2)
                               IN  IF edge_key \in st.edge_seen THEN st
                                   ELSE LET s1 == [st EXCEPT !.edge_seen = @ \cup {edge_key}]
                                            a  == EnsureNode(s1, n1)
                                            b  == EnsureNode(a.st, n2)
                                        IN  [b.st EXCEPT !.base_edges =
                                                Append(@, <<a.id, b.id>>)]

RECURSIVE RidgeLoop(_, _, _, _, _)
RidgeLoop(st, rs, vertices, width, height) ==
    IF rs = <<>> THEN st
    ELSE RidgeLoop(RidgeStep(st, Head(rs), vertices, width, height),
                   Tail(rs), vertices, width, height)

\* build_base_graph; h is the heap the new node dicts are allocated in
build_base_graph(h, rs, vertices, width, height) ==
    RidgeLoop([heap |-> h, nodes |-> <<>>, node_mapping |-> <<>>,
               edge_seen |-> {}, base_edges |-> <<>>],
              rs, vertices, width, height)

----------------------------------------------------------------------------
(* Pruning and reindexing                                                  *)

\* knock_out_edges; to_remove stands for set(random.sample(edge_indices,
\* remove_count)), a set of 0-based indices, used only where the code draws it
KnockOutRemoveCount(edges, removal_fraction) ==
    Min(Len(edges), IntFraction(Len(edges), removal_fraction))

knock_out_edges(edges, removal_fraction, to_remove) ==
    IF edges = <<>> \/ removal_fraction <= 0 THEN edges
    ELSE LET edge_indices == [i \in 1..Len(edges) |-> i - 1]
             Kept(idx) == idx \notin to_remove
             kept == SelectSeq(edge_indices, Kept)
         IN  [k \in 1..Len(kept) |-> edges[kept[k] + 1]]

\* the draws random.sample(edge_indices, remove_count) can make
KnockOutSamples(edges, removal_fraction) ==
    IF edges = <<>> \/ removal_fraction <= 0 THEN {{}}
    ELSE RandomSample([i \in 1..Len(edges) |-> i - 1],
                      KnockOutRemoveCount(edges, removal_fraction))

\* prune_nodes_for_mode; removed_ids stands for set(random.sample(node_ids,
\* remove_count))
PruneRemoveCount(h, ns, removal_fraction) ==
    Min(Len(ns), IntFraction(Len(ns), removal_fraction))

PruneSamples(h, ns, removal_fraction) ==
    IF ns = <<>> \/ removal_fraction <= 0 THEN {{}}
    ELSE RandomSample([i \in 1..Len(ns) |-> h[ns[i]].id],
                      PruneRemoveCount(h, ns, removal_fraction))

PruneNodesOneEndpoint(h, ns, edges, removal_fraction, removed_ids) ==
    IF ns = <<>> \/ removal_fraction <= 0
    THEN LET c == CopyNodes(h, ns)
         IN  [heap |-> c.heap, nodes |-> c.refs, edges |-> edges]
    ELSE LET KeepNode(a) == h[a].id \notin removed_ids
             KeepEdge(e) == e[1] \notin removed_ids
             c == CopyNodes(h, SelectSeq(ns, KeepNode))
         IN  [heap |-> c.heap, nodes |-> c.refs,
              edges |-> SelectSeq(edges, KeepEdge)]
prune_nodes_for_mode(h, ns, edges, removal_fraction, removed_ids) ==
    IF ns = <<>> \/ removal_fraction <= 0
    THEN LET c == CopyNodes(h, ns)
         IN  [heap |-> c.heap, nodes |-> c.refs, edges |-> edges]
    ELSE LET KeepNode(a) == h[a].id \notin removed_ids
             KeepEdge(e) == e[1] \notin removed_ids /\ e[2] \notin removed_ids
             c == CopyNodes(h, SelectSeq(ns, KeepNode))
         IN  [heap |-> c.heap, nodes |-> c.refs,
              edges |-> SelectSeq(edges, KeepEdge)]

\* for node in filtered_nodes: node["id"] = id_map[node["id"]]
RECURSIVE AssignIds(_, _, _)
AssignIds(h, refs, id_map) ==
    IF refs = <<>> THEN h
    ELSE AssignIds([h EXCEPT ![Head(refs)].id = id_map[@]], Tail(refs), id_map)

\* {node["id"]: idx for idx, node in enumerate(filtered_nodes)}: a later
\* node with the same id overwrites an earlier one
IdMapIdentity(h, refs) ==
    [i \in {h[refs[k]].id : k \in 1..Len(refs)} |-> i]
IdMapOneBased(h, refs) ==
    [i \in {h[refs[k]].id : k \in 1..Len(refs)} |->
        CHOOSE k \in 1..Len(refs) :
            /\ h[refs[k]].id = i
            /\ \A j \in 1..Len(refs) : h[refs[j]].id = i => j <= k]
IdMap(h, refs) ==
    [i \in {h[refs[k]].id : k \in 1..Len(refs)} |->
        (CHOOSE k \in 1..Len(refs) :
            /\ h[refs[k]].id = i
            /\ \A j \in 1..Len(refs) : h[refs[j]].id = i => j <= k) - 1]

ReindexSourcesOnly(h, ns, edges) ==
    IF edges = <<>> THEN [heap |-> h, nodes |-> <<>>, edges |-> <<>>]
    ELSE LET connected_ids == {e[1] : e \in Range(edges)}
             IsConnected(a) == h[a].id \in connected_ids
             c == CopyNodes(h, SelectSeq(ns, IsConnected))
             id_map == IdMap(c.heap, c.refs)
             h2 == AssignIds(c.heap, c.refs, id_map)
             InMap(e) == e[1] \in DOMAIN id_map /\ e[2] \in DOMAIN id_map
             kept == SelectSeq(edges, InMap)
         IN  [heap |-> h2, nodes |-> c.refs,
              edges |-> [i \in 1..Len(kept) |->
                            <<id_map[kept[i][1]], id_map[kept[i][2]]>>]]
reindex_nodes_and_edges(h, ns, edges) ==
    IF edges = <<>> THEN [heap |-> h, nodes |-> <<>>, edges |-> <<>>]
    ELSE LET connected_ids == {e[1] : e \in Range(edges)} \cup {e[2] : e \in Range(edges)}
             IsConnected(a) == h[a].id \in connected_ids
             c == CopyNodes(h, SelectSeq(ns, IsConnected))
             id_map == IdMap(c.heap, c.refs)
             h2 == AssignIds(c.heap, c.refs, id_map)
             InMap(e) == e[1] \in DOMAIN id_map /\ e[2] \in DOMAIN id_map
             kept == SelectSeq(edges, InMap)
         IN  [heap |-> h2, nodes |-> c.refs,
              edges |-> [i \in 1..Len(kept) |->
                            <<id_map[kept[i][1]], id_map[kept[i][2]]>>]]

\* generate_mode_graph, given the two random draws
generate_mode_graph(h, mode, ns, edges, removed_ids, to_remove) ==
    LET p == prune_nodes_for_mode(h, ns, edges, NODE_REMOVAL_FRACTION, removed_ids)
        mode_edges_raw == knock_out_edges(p.edges, EDGE_REMOVAL_FRACTION, to_remove)
        r == reindex_nodes_and_edges(p.heap, p.nodes, mode_edges_raw)
    IN  [heap |-> r.heap,
         graph |-> [mode |-> mode, nodes |-> r.nodes,
                    edges |-> [i \in 1..Len(r.edges) |->
                                 [id |-> i - 1, from_node |-> r.edges[i][1],
                                  to_node |-> r.edges[i][2]]]]]

----------------------------------------------------------------------------
(* generate_network: base graph, recentering, one graph per mode           *)

\* vor.vertices by 0-based index, in thousandths.  0 and 1 round to the same
\* node, so do 2 and 3; 4 and 5 lie outside the rectangle; from 6 on the
\* vertices are distinct after rounding and inside the rectangle.
VorVertices ==
    [i \in 0..(MaxChain + 6) |->
        CASE i = 0 -> <<0, 0>>
          [] i = 1 -> <<4, 0>>
          [] i = 2 -> <<1004, 996>>
          [] i = 3 -> <<996, 1004>>
          [] i = 4 -> <<-1000, 0>>
          [] i = 5 -> <<30004, 500>>
          [] OTHER -> <<1000 * (i - 5), 2000 + 1000 * (i % 2)>>]

RECURSIVE SeqsUpTo(_, _)
SeqsUpTo(S, n) ==
    IF n = 0 THEN {<<>>}
    ELSE LET shorter == SeqsUpTo(S, n - 1)
         IN  shorter \cup {Append(q, x) : q \in shorter, x \in S}

\* every ridge list of at most MaxRidges ridges over the indices -1..4
SmallRidgeLists == SeqsUpTo((-1..4) \X (-1..4), MaxRidges)

\* a ridge that leaves the rectangle, a chain of n ridges over n + 1 vertices,
\* then the first ridge of the chain again with its endpoints swapped
ChainRidges(n) ==
    <<<<5, 6>>>> \o [i \in 1..n |-> <<5 + i, 6 + i>>] \o <<<<7, 6>>>>

ChainRidgeLists == {ChainRidges(n) : n \in {5, MaxChain - 1, MaxChain}}

DefaultModes == <<"Bike", "Walk">>     \* modes = ["Bike", "Walk"]

Width == MapSize * 1000     \* map_size in thousandths

SetMin(S) == CHOOSE x \in S : \A y \in S : x <= y
SetMax(S) == CHOOSE x \in S : \A y \in S : x >= y

\* nodes, base_edges = build_base_graph(points, map_size, map_size)
BuildBase ==
    /\ npc = "build"
    /\ LET st == build_base_graph(<<>>, ridges, VorVertices, Width, Width)
       IN  /\ heap' = st.heap
           /\ nodes' = st.nodes
           /\ base_edges' = st.base_edges
    /\ npc' = "recenter"
    /\ UNCHANGED <<ridges, modes, graphs, base0>>
    /\ UNCHANGED <<cityVars, unitVars>>

\* node["position"][0] -= center_x; node["position"][1] -= center_z
RECURSIVE Shift(_, _, _, _)
Shift(h, refs, cx, cz) ==
    IF refs = <<>> THEN h
    ELSE Shift([h EXCEPT ![Head(refs)].position = <<@[1] - cx, @[2] - cz>>],
               Tail(refs), cx, cz)

\* if nodes: ... recenter on the bounding-box centre
Recentered(h, ns) ==
    IF ns = <<>> THEN h
    ELSE LET xs == {h[a].position[1] : a \in Range(ns)}
             zs == {h[a].position[2] : a \in Range(ns)}
             center_x == (SetMin(xs) + SetMax(xs)) \div 2
             center_z == (SetMin(zs) + SetMax(zs)) \div 2
         IN  Shift(h, ns, center_x, center_z)

Recenter ==
    /\ npc = "recenter"
    /\ heap' = Recentered(heap, nodes)
    /\ graphs' = <<>>
    /\ base0' = [nodes |-> Deref(heap', nodes), edges |-> base_edges]
    /\ npc' = "modes"
    /\ UNCHANGED <<ridges, modes, nodes, base_edges>>
    /\ UNCHANGED <<cityVars, unitVars>>

\* graphs[mode] = generate_mode_graph(mode, nodes, base_edges)
DeriveMode ==
    /\ npc = "modes"
    /\ modes # <<>>
    /\ \E removed_ids \in PruneSamples(heap, nodes, NODE_REMOVAL_FRACTION) :
         LET p == prune_nodes_for_mode(heap, nodes, base_edges,
                                       NODE_REMOVAL_FRACTION, removed_ids)
         IN  \E to_remove \in KnockOutSamples(p.edges, EDGE_REMOVAL_FRACTION) :
               LET g == generate_mode_graph(heap, Head(modes), nodes, base_edges,
                                            removed_ids, to_remove)
               IN  /\ heap' = g.heap
                   /\ graphs' = [m \in DOMAIN graphs \cup {Head(modes)} |->
                                    IF m = Head(modes) THEN g.graph ELSE graphs[m]]
    /\ modes' = Tail(modes)
    /\ UNCHANGED <<ridges, nodes, base_edges, npc, base0>>
    /\ UNCHANGED <<cityVars, unitVars>>

\* return {"graphs": graphs}
ReturnNetwork ==
    /\ npc = "modes"
    /\ modes = <<>>
    /\ npc' = "done"
    /\ UNCHANGED <<ridges, modes, heap, nodes, base_edges, graphs, base0>>
    /\ UNCHANGED <<cityVars, unitVars>>

InitNet ==
    /\ ridges \in SmallRidgeLists \cup ChainRidgeLists
    /\ modes = DefaultModes
    /\ heap = <<>>
    /\ nodes = <<>>
    /\ base_edges = <<>>
    /\ graphs = <<>>
    /\ base0 = <<>>
    /\ npc = "build"
    \* generate_city_points and the single calls are not running
    /\ script = "generate_network" /\ num_points = 0 /\ points = <<>>
    /\ attempts = 0 /\ pts = <<>> /\ iter = 0 /\ cpc = "idle"
    /\ arg = <<>> /\ res = <<>> /\ op = "none"

NextNet == BuildBase \/ Recenter \/ DeriveMode \/ ReturnNetwork

SpecNet == InitNet /\ [][NextNet]_vars

----------------------------------------------------------------------------
(* Single calls of the graph functions on enumerated arguments             *)

\* removal fractions tried, in percent
Fractions == {0, 10, 20, 50, 99}

\* id lists in increasing or in decreasing order, gaps allowed
IdLists(S, n) ==
    {q \in SeqsUpTo(S, n) :
        \/ \A i \in 1..(Len(q) - 1) : q[i] < q[i + 1]
        \/ \A i \in 1..(Len(q) - 1) : q[i] > q[i + 1]}

\* a node list with the given ids; the i-th node sits at <<i, i>>
NodeHeap(ids) == [i \in 1..Len(ids) |-> [id |-> ids[i], position |-> <<i, i>>]]

\* ring of n nodes with ids 0..n-1 (n = 4: the four-node network)
RingIds(n) == [i \in 1..n |-> i - 1]
RingEdges(n) == [i \in 1..n |-> <<i - 1, i % n>>]

\* a node list with the given ids and the given edge list
UnitArg(ids, es) ==
    [heap |-> NodeHeap(ids), nodes |-> [i \in 1..Len(ids) |-> i], edges |-> es]

\* the edge list refers to listed nodes only
EdgesOverNodes(a) ==
    \A e \in Range(a.edges) :
        \A k \in 1..2 : \E i \in 1..Len(a.nodes) : a.heap[a.nodes[i]].id = e[k]

RingSizes == {4, MaxRing - 1, MaxRing}

\* every enumerated node list with every edge list over its ids, and the rings
InitUnit ==
    /\ \/ \E ids \in IdLists(0..MaxUnitNodes, MaxUnitNodes) :
            \E es \in SeqsUpTo(Range(ids) \X Range(ids), MaxUnitEdges) :
               arg = UnitArg(ids, es)
       \/ \E n \in RingSizes : arg = UnitArg(RingIds(n), RingEdges(n))
    /\ res = <<>>
    /\ op = "none"
    \* generate_city_points and generate_network are not running
    /\ script = "generate_network" /\ num_points = 0 /\ points = <<>>
    /\ attempts = 0 /\ pts = <<>> /\ iter = 0 /\ cpc = "idle"
    /\ ridges = <<>> /\ modes = <<>> /\ heap = <<>> /\ nodes = <<>>
    /\ base_edges = <<>> /\ graphs = <<>> /\ npc = "idle" /\ base0 = <<>>

CallKnockOutEdges ==
    /\ op = "none"
    /\ \E f \in Fractions :
         \E to_remove \in KnockOutSamples(arg.edges, f) :
            res' = [fraction |-> f,
                    edges |-> knock_out_edges(arg.edges, f, to_remove)]
    /\ op' = "knock_out_edges"
    /\ UNCHANGED <<arg, cityVars, netVars>>

CallPruneNodes ==
    /\ op = "none"
    /\ \E f \in Fractions :
         \E removed_ids \in PruneSamples(arg.heap, arg.nodes, f) :
            LET p == prune_nodes_for_mode(arg.heap, arg.nodes, arg.edges, f, removed_ids)
            IN  res' = [fraction |-> f, heap |-> p.heap, nodes |-> p.nodes,
                        edges |-> p.edges]
    /\ op' = "prune_nodes_for_mode"
    /\ UNCHANGED <<arg, cityVars, netVars>>

CallReindex ==
    /\ op = "none"
    /\ res' = reindex_nodes_and_edges(arg.heap, arg.nodes, arg.edges)
    /\ op' = "reindex_nodes_and_edges"
    /\ UNCHANGED <<arg, cityVars, netVars>>

\* reindex_nodes_and_edges applied to its own result
CallReindexAgain ==
    /\ op = "reindex_nodes_and_edges"
    /\ LET r == reindex_nodes_and_edges(res.heap, res.nodes, res.edges)
       IN  res' = [heap |-> r.heap, nodes |-> r.nodes, edges |-> r.edges,
                   first |-> [nodes |-> Deref(res.heap, res.nodes),
                              edges |-> res.edges]]
    /\ op' = "reindex_twice"
    /\ UNCHANGED <<arg, cityVars, netVars>>

CallGenerateModeGraph ==
    /\ op = "none"
    /\ \E removed_ids \in PruneSamples(arg.heap, arg.nodes, NODE_REMOVAL_FRACTION) :
         LET p == prune_nodes_for_mode(arg.heap, arg.nodes, arg.edges,
                                       NODE_REMOVAL_FRACTION, removed_ids)
         IN  \E to_remove \in KnockOutSamples(p.edges, EDGE_REMOVAL_FRACTION) :
               res' = generate_mode_graph(arg.heap, "Bike", arg.nodes, arg.edges,
                                          removed_ids, to_remove)
    /\ op' = "generate_mode_graph"
    /\ UNCHANGED <<arg, cityVars, netVars>>

NextUnit ==
    \/ CallKnockOutEdges
    \/ CallPruneNodes
    \/ CallReindex
    \/ CallReindexAgain
    \/ CallGenerateModeGraph

SpecUnit == InitUnit /\ [][NextUnit]_vars

----------------------------------------------------------------------------
(* Properties                                                              *)

\* ids of a node list
IdsOf(h, refs) == [i \in 1..Len(refs) |-> h[refs[i]].id]

\* C1: the node ids of a mode graph returned by generate_mode_graph are
\* exactly 0..k-1, k the number of returned nodes, without duplicates
\* (k = 0 when no edge survives).
C1_ContiguousIds ==
    op = "generate_mode_graph" =>
        LET ids == IdsOf(res.heap, res.graph.nodes)
            k == Len(ids)
        IN  /\ Range(ids) = 0..(k - 1)
            /\ \A i, j \in 1..k : i # j => ids[i] # ids[j]
            /\ (res.graph.edges = <<>> => k = 0)

\* a node was pruned and the survivors were renumbered
C1_Witness ==
    /\ op = "generate_mode_graph"
    /\ Len(res.graph.nodes) > 0
    /\ Len(res.graph.nodes) < Len(arg.nodes)
    /\ Len(res.graph.edges) < Len(arg.edges)

\* C2: in every mode graph derived from a base graph built by
\* build_base_graph, every edge has 0 <= from_node < k, 0 <= to_node < k and
\* from_node # to_node, k the number of nodes of that mode graph.
C2_EdgesInBounds ==
    \A m \in DOMAIN graphs :
        LET k == Len(graphs[m].nodes)
        IN  \A i \in 1..Len(graphs[m].edges) :
               LET e == graphs[m].edges[i]
               IN  /\ 0 <= e.from_node /\ e.from_node < k
                   /\ 0 <= e.to_node /\ e.to_node < k
                   /\ e.from_node # e.to_node

\* both modes derived, one of them after a node and an edge were pruned
C2_Witness ==
    /\ npc = "done"
    /\ DOMAIN graphs = {"Bike", "Walk"}
    /\ \E m \in DOMAIN graphs :
          /\ Len(graphs[m].nodes) < Len(nodes)
          /\ Len(graphs[m].edges) > 0
          /\ Len(graphs[m].edges) + 2 < Len(base_edges)

\* C3: the base graph has no two edges over the same unordered pair of node
\* ids, and no two nodes with the same id or the same rounded coordinates.
C3_BaseGraphDeduplicated ==
    /\ \A i, j \in 1..Len(base_edges) :
          i # j => /\ base_edges[i] # base_edges[j]
                   /\ base_edges[i] # <<base_edges[j][2], base_edges[j][1]>>
    /\ \A i, j \in 1..Len(nodes) :
          i # j => /\ heap[nodes[i]].id # heap[nodes[j]].id
                   /\ heap[nodes[i]].position # heap[nodes[j]].position

\* a ridge was followed by one that rounds to the same endpoints in the
\* opposite order, and the base graph was built from them
C3_Witness ==
    /\ npc = "recenter"
    /\ Len(ridges) = 2
    /\ ridges[1] = <<0, 2>>
    /\ ridges[2] = <<3, 1>>
    /\ Len(base_edges) = 1
    /\ Len(nodes) = 2

\* C4: a Lloyd relaxation iteration returns as many points as it was given,
\* so the relaxed set has the cardinality of the sampled set.
C4_RelaxKeepsCardinality ==
    cpc \in {"relax", "done", "error"} => Len(pts) = Len(points)

\* a is a subsequence of b
RECURSIVE IsSubseq(_, _)
IsSubseq(a, b) ==
    IF a = <<>> THEN TRUE
    ELSE IF b = <<>> THEN FALSE
    ELSE IF Head(a) = Head(b) THEN IsSubseq(Tail(a), Tail(b))
    ELSE IsSubseq(a, Tail(b))

\* C5: knock_out_edges returns E - floor(E * f) edges, a subsequence of its
\* input in the original order, and generate_mode_graph numbers the edges it
\* returns 0, 1, 2, ... in list order.
C5_KnockOutCount ==
    /\ op = "knock_out_edges" =>
          LET E == Len(arg.edges)
              removed == CHOOSE r \in 0..E :
                            100 * r <= E * res.fraction /\ E * res.fraction < 100 * (r + 1)
          IN  /\ Len(res.edges) = E - removed
              /\ IsSubseq(res.edges, arg.edges)
    /\ op = "generate_mode_graph" =>
          \A i \in 1..Len(res.graph.edges) : res.graph.edges[i].id = i - 1

\* an edge in the middle of the list was removed, the others kept
C5_Witness ==
    /\ op = "knock_out_edges"
    /\ res.fraction = 50
    /\ Len(arg.edges) = 2
    /\ Len(res.edges) = 1
    /\ arg.edges[1] # arg.edges[2]
    /\ res.edges[1] = arg.edges[2]

\* C6: prune_nodes_for_mode removes floor(N * f) distinct nodes, returns
\* exactly the edges whose two endpoints are among the returned nodes, and
\* with N = 4 and f = 0.10 returns the node and edge lists unchanged.
C6_PruneNodes ==
    op = "prune_nodes_for_mode" =>
        LET N == Len(arg.nodes)
            removed == CHOOSE r \in 0..N :
                          100 * r <= N * res.fraction /\ N * res.fraction < 100 * (r + 1)
            before == Deref(arg.heap, arg.nodes)
            after == Deref(res.heap, res.nodes)
            ids == {after[i].id : i \in 1..Len(after)}
            Survives(e) == e[1] \in ids /\ e[2] \in ids
        IN  /\ Len(after) = N - removed
            /\ IsSubseq(after, before)
            /\ res.edges = SelectSeq(arg.edges, Survives)
            /\ (N = 4 /\ res.fraction = 10 =>
                   after = before /\ res.edges = arg.edges)

\* a node was removed, taking an incident edge with it and leaving another
C6_Witness ==
    /\ op = "prune_nodes_for_mode"
    /\ res.fraction = 50
    /\ Len(arg.nodes) = 3
    /\ Len(res.nodes) = 2
    /\ Len(arg.edges) = 2
    /\ Len(res.edges) = 1

\* the four-node case of C6
C6_FourNodes ==
    /\ op = "prune_nodes_for_mode"
    /\ res.fraction = 10
    /\ Len(arg.nodes) = 4

\* C7: deriving a mode graph leaves the base node list (ids and positions)
\* and the base edge list as they were when derivation began.
C7_BaseReadOnly ==
    npc \in {"modes", "done"} =>
        base0 = [nodes |-> Deref(heap, nodes), edges |-> base_edges]

\* both modes derived, each after pruning a node
C7_Witness ==
    /\ npc = "done"
    /\ Len(nodes) >= 10
    /\ \A m \in {"Bike", "Walk"} :
          /\ m \in DOMAIN graphs
          /\ Len(graphs[m].nodes) < Len(nodes)
          /\ Len(graphs[m].nodes) > 0

\* ids 0..k-1 in list order, every node an endpoint, every endpoint a node
ContiguousConnected(a) ==
    /\ \A i \in 1..Len(a.nodes) : a.heap[a.nodes[i]].id = i - 1
    /\ \A i \in 1..Len(a.nodes) :
          \E e \in Range(a.edges) : e[1] = i - 1 \/ e[2] = i - 1
    /\ EdgesOverNodes(a)

\* C8: on input whose ids are already 0..k-1 in order and fully connected,
\* reindex_nodes_and_edges returns its input, and a second application
\* returns what the first did.
C8_ReindexIdempotent ==
    ContiguousConnected(arg) =>
        /\ op = "reindex_nodes_and_edges" =>
              /\ Deref(res.heap, res.nodes) = Deref(arg.heap, arg.nodes)
              /\ res.edges = arg.edges
        /\ op = "reindex_twice" =>
              /\ Deref(res.heap, res.nodes) = res.first.nodes
              /\ res.edges = res.first.edges

\* applied twice to a contiguous, connected graph of three nodes
C8_Witness ==
    /\ op = "reindex_twice"
    /\ ContiguousConnected(arg)
    /\ Len(arg.nodes) = 3
    /\ Len(res.nodes) = 3

\* C9: the sampling loop makes at most num_points * 50 attempts, holds at
\* most num_points points, leaves with num_points points or with fewer and
\* the budget spent, hands the accepted points on without error, and it
\* terminates.
C9_SamplingTerminates ==
    /\ [](/\ attempts <= num_points * 50
          /\ Len(points) <= num_points
          /\ cpc \in {"sample", "relax"}
          /\ cpc = "relax" =>
                /\ pts = points
                /\ \/ Len(pts) = num_points
                   \/ Len(pts) < num_points /\ attempts = num_points * 50)
    /\ <>(cpc = "relax")

\* the budget ran out with fewer points than requested
C9_Witness ==
    /\ cpc = "relax"
    /\ num_points >= 2
    /\ attempts = num_points * 50
    /\ Len(pts) = num_points - 1

\* position of the node with the given id in a node list
PositionOf(h, refs, id) ==
    LET i == CHOOSE k \in 1..Len(refs) : h[refs[k]].id = id
    IN  h[refs[i]].position

\* C10: for a non-empty edge list over listed nodes, reindex_nodes_and_edges
\* returns as many edges, in order; the returned nodes are the input nodes
\* that are an endpoint of some edge, in order; each returned edge joins the
\* nodes (same positions) its original joined.
C10_ReindexRewritesEveryEdge ==
    (op = "reindex_nodes_and_edges" /\ arg.edges # <<>>) =>
        LET before == Deref(arg.heap, arg.nodes)
            after == Deref(res.heap, res.nodes)
            Touched(n) == \E e \in Range(arg.edges) : e[1] = n.id \/ e[2] = n.id
            kept == SelectSeq(before, Touched)
        IN  /\ Len(res.edges) = Len(arg.edges)
            /\ Len(after) = Len(kept)
            /\ \A i \in 1..Len(after) :
                  after[i].position = kept[i].position /\ after[i].id = i - 1
            /\ \A i \in 1..Len(res.edges) : \A k \in 1..2 :
                  PositionOf(res.heap, res.nodes, res.edges[i][k])
                    = PositionOf(arg.heap, arg.nodes, arg.edges[i][k])

\* an isolated node was dropped and the edges were rewritten to new ids
C10_Witness ==
    /\ op = "reindex_nodes_and_edges"
    /\ Len(arg.edges) = 2
    /\ Len(res.nodes) = 2
    /\ Len(arg.nodes) = 3
    /\ res.edges # arg.edges

====
